---------------------------- MODULE Spec2Model ----------------------------
(***************************************************************************)
(* Wrapper transactions (shared/src/types/transaction.rs): gas-limit       *)
(* quantization and refunds, the encrypted payload with its hash           *)
(* commitment, and the signed envelope that authenticates a WrapperTx.     *)
(*                                                                         *)
(* u64 values do not fit the checker's machine integers, so a u64 is kept  *)
(* exactly as three limbs <<hi, mid, lo>> in base 10^6:                    *)
(*     value = hi * 10^12 + mid * 10^6 + lo,   0 <= mid, lo < 10^6.        *)
(* Byte strings are sequences of cells <<tag, payload>>; a cell is one     *)
(* byte (<<"u8", b>>) or one fixed-width field of the wire format.         *)
(***************************************************************************)
EXTENDS Integers, Sequences, FiniteSets, TLC

VARIABLES
    overflow_checks,  \* build profile: TRUE panics on integer overflow, FALSE wraps
    gas_raw,          \* the raw u64 the current GasLimit was last converted from
    limit,            \* the GasLimit the client currently holds
    wrapper,          \* the WrapperTx under construction / inspection
    plain,            \* ground truth about wrapper: which bytes inner_tx encrypts,
                      \* whether they are a transaction's, whether tx_hash is their
                      \* digest, whether the ciphertext is as encrypt made it
    envelope,         \* the outer Tx (signed envelope) in flight
    meta,             \* ground truth about envelope: who put it together and how,
                      \* whether its signature is the pk owner's over what it carries
    op                \* the last operation applied, with its inputs and its result

vars == <<overflow_checks, gas_raw, limit, wrapper, plain, envelope, meta, op>>

-----------------------------------------------------------------------------
(* Bounds of the model *)

\* raw gas values are sampled around the multiples 0 .. MaxMult of the
\* resolution, and around the MaxMult + 1 highest multiples below 2^64
MaxMult == 1

-----------------------------------------------------------------------------
(* u64 arithmetic on limbs *)

GAS_LIMIT_RESOLUTION == 1000000

\* limb base; the resolution is the base, so n / RESOLUTION is a limb shift
Base == GAS_LIMIT_RESOLUTION

\* u64::MAX = 18446744073709551615 and 2^64 = u64::MAX + 1
U64_MAX == <<18446744, 73709, 551615>>
TwoPow64 == <<18446744, 73709, 551616>>

Zero == <<0, 0, 0>>
Resolution == <<0, 1, 0>>

\* carry / borrow propagation; a negative number ends with a negative hi limb
Norm(x) ==
    LET lo  == x[3] % Base
        m   == x[2] + (x[3] \div Base)
        mid == m % Base
        hi  == x[1] + (m \div Base)
    IN  <<hi, mid, lo>>

Add(x, y) == Norm(<<x[1] + y[1], x[2] + y[2], x[3] + y[3]>>)
Sub(x, y) == Norm(<<x[1] - y[1], x[2] - y[2], x[3] - y[3]>>)
Small(k) == Norm(<<0, 0, k>>)

Lt(x, y) ==
    \/ x[1] < y[1]
    \/ x[1] = y[1] /\ x[2] < y[2]
    \/ x[1] = y[1] /\ x[2] = y[2] /\ x[3] < y[3]
Le(x, y) == ~Lt(y, x)

InU64(x) == Le(Zero, x) /\ Le(x, U64_MAX)

\* x * RESOLUTION and floor(x / RESOLUTION), exact
MulRes(x) == Norm(<<x[1] * Base + x[2], x[3], 0>>)
DivRes(x) == Norm(<<0, x[1], x[2]>>)

\* reduction modulo 2^64 (what wrapping arithmetic keeps)
RECURSIVE Wrap(_)
Wrap(x) ==
    IF Lt(x, Zero) THEN Wrap(Add(x, TwoPow64))
    ELSE IF Lt(U64_MAX, x) THEN Wrap(Sub(x, TwoPow64))
    ELSE x

\* result of a u64 computation: a value, or a panic of the thread
Val(x) == [ok |-> TRUE, v |-> x]
Panic == [ok |-> FALSE, v |-> Zero]

\* a u64 `*`, `-` or `+` whose exact result is x: in range it is x; out of
\* range the build panics (overflow checks on) or wraps (overflow checks off)
Arith(x) ==
    IF InU64(x) THEN Val(x)
    ELSE IF overflow_checks THEN Panic
    ELSE Val(Wrap(x))


-----------------------------------------------------------------------------
(* Wire forms of a u64 *)

\* x = 256 * q + r, by long division over the limbs
DivMod256(x) ==
    LET t2 == (x[1] % 256) * Base + x[2]
        t3 == (t2 % 256) * Base + x[3]
    IN  [q |-> <<x[1] \div 256, t2 \div 256, t3 \div 256>>, r |-> t3 % 256]

Mul256(x) == Norm(<<x[1] * 256, x[2] * 256, x[3] * 256>>)

\* borsh: a u64 is its 8 bytes, least significant first
RECURSIVE ToLeBytes(_, _)
ToLeBytes(x, k) ==
    IF k = 0 THEN <<>>
    ELSE LET d == DivMod256(x)
         IN  <<<<"u8", d.r>>>> \o ToLeBytes(d.q, k - 1)

RECURSIVE FromLeBytes(_)
FromLeBytes(bs) ==
    IF bs = <<>> THEN Zero
    ELSE Add(Small(bs[1][2]), Mul256(FromLeBytes(Tail(bs))))

IsByte(c) == Len(c) = 2 /\ c[1] = "u8"

borsh_serialize_u64(x) == ToLeBytes(x, 8)

\* borsh: reads 8 bytes off the front of the buffer; fails on a shorter one
borsh_deserialize_u64(buf) ==
    IF Len(buf) >= 8 /\ \A i \in 1..8 : IsByte(buf[i])
    THEN [ok |-> TRUE, v |-> FromLeBytes(SubSeq(buf, 1, 8)),
          rest |-> SubSeq(buf, 9, Len(buf))]
    ELSE [ok |-> FALSE, v |-> Zero, rest |-> buf]

\* the decimal digits of k, most significant first, in exactly w digits
RECURSIVE Digits(_, _)
Digits(k, w) ==
    IF w = 0 THEN <<>> ELSE Append(Digits(k \div 10, w - 1), k % 10)

RECURSIVE StripZeros(_)
StripZeros(ds) ==
    IF Len(ds) > 1 /\ ds[1] = 0 THEN StripZeros(Tail(ds)) ELSE ds

\* serde_json: a u64 is written as its decimal digits, no leading zeros
json_to_string_u64(x) ==
    StripZeros(Digits(x[1], 8) \o Digits(x[2], 6) \o Digits(x[3], 6))

RECURSIVE ParseDigits(_, _)
ParseDigits(ds, acc) ==
    IF ds = <<>> THEN acc
    ELSE ParseDigits(Tail(ds), Norm(<<acc[1] * 10, acc[2] * 10, acc[3] * 10 + ds[1]>>))

\* serde_json: a u64 is read from "0" or a digit string without a leading
\* zero whose value fits 64 bits; anything else is an error
json_from_str_u64(ds) ==
    LET n == ParseDigits(ds, Zero)
    IN  IF /\ Len(ds) \in 1..20
           /\ \A i \in 1..Len(ds) : ds[i] \in 0..9
           /\ (Len(ds) > 1 => ds[1] # 0)
           /\ InU64(n)
        THEN [ok |-> TRUE, v |-> n]
        ELSE [ok |-> FALSE, v |-> Zero]

-----------------------------------------------------------------------------
(* GasLimit *)

GasLimit(m) == [multiplier |-> m]

\* impl From<u64> for GasLimit
GasLimit_from(amount) ==
    LET quotient == DivRes(amount)
    IN  IF Lt(MulRes(quotient), amount)
        THEN GasLimit(Add(quotient, Small(1)))
        ELSE GasLimit(quotient)

\* impl From<&GasLimit> for u64 and impl From<GasLimit> for u64
u64_from(self) == Arith(MulRes(self.multiplier))

\* impl From<u64> for Amount
Amount_from(x) == [micro |-> x]

\* GasLimit::refund_amount
refund_amount(self, used_gas) ==
    LET L == u64_from(self)
        floor == Arith(Sub(L.v, Resolution))
        refund ==
            IF ~L.ok \/ ~floor.ok THEN Panic
            ELSE IF Lt(used_gas, floor.v) THEN Val(Resolution)
            ELSE IF Le(L.v, used_gas) THEN Val(Zero)
            ELSE Arith(Sub(L.v, used_gas))
    IN  [ok |-> refund.ok, v |-> Amount_from(refund.v)]

\* impl BorshSerialize for GasLimit
GasLimit_serialize(self) ==
    LET raw == u64_from(self)
    IN  [ok |-> raw.ok, v |-> IF raw.ok THEN borsh_serialize_u64(raw.v) ELSE <<>>]

\* impl BorshDeserialize for GasLimit
GasLimit_deserialize(buf) ==
    LET raw == borsh_deserialize_u64(buf)
    IN  [ok |-> raw.ok, v |-> GasLimit_from(raw.v), rest |-> raw.rest]

\* #[serde(into = "u64")] through serde_json::to_string
GasLimit_to_json(self) ==
    LET raw == u64_from(self)
    IN  [ok |-> raw.ok, v |-> IF raw.ok THEN json_to_string_u64(raw.v) ELSE <<>>]

\* #[serde(from = "u64")] through serde_json::from_str
GasLimit_from_json(js) ==
    LET raw == json_from_str_u64(js)
    IN  [ok |-> raw.ok, v |-> GasLimit_from(raw.v)]

-----------------------------------------------------------------------------
(* Inputs *)

\* the highest multiple of the resolution below 2^64
TopMultiple == <<U64_MAX[1], U64_MAX[2], 0>>

RawLow ==
    { Add(MulRes(Small(k)), Small(d)) :
        k \in 0..MaxMult, d \in {0, 1, GAS_LIMIT_RESOLUTION - 1} }
RawHigh ==
    { Add(Sub(TopMultiple, MulRes(Small(k))), Small(d)) :
        k \in 0..MaxMult, d \in {0, 1, GAS_LIMIT_RESOLUTION - 1} }

\* raw u64 values: gas budgets and gas consumptions
RawSamples == { x \in RawLow \cup RawHigh \cup {U64_MAX} : InU64(x) }

\* texts that are no u64: empty, a leading zero, 2^64
BadTexts == {<<>>, <<0, 1>>, json_to_string_u64(TwoPow64)}

-----------------------------------------------------------------------------
(* Collaborators: options, results, digest, signatures, the envelope *)

Some(x) == [some |-> TRUE, v |-> x]
None == [some |-> FALSE, v |-> <<>>]

Ok(x) == [tag |-> "Ok", v |-> x]
Err(e) == [tag |-> "Err", err |-> e]

\* Sha256::digest: a 32-byte field; distinct inputs give distinct digests
Sha256_digest(bytes) == <<"sha256", bytes>>
\* [0u8; 32]
ZeroHash == <<"zeros", <<>>>>
IsHash(c) == Len(c) = 2 /\ c[1] \in {"sha256", "zeros"}

\* ed25519
Keypairs == {"alice", "mallory"}
public(keypair) == <<"pk", keypair>>
IsPk(c) == Len(c) = 2 /\ c[1] = "pk"
Keypair_sign(keypair, msg) == <<"sig", keypair, msg>>
IsSig(c) == Len(c) = 3 /\ c[1] = "sig"

SigErrorMsg == "Signature verification failed: signature error"

\* verify_signature_raw(pk, data, sig)
verify_signature_raw(pk, data, sig) ==
    IF public(sig[2]) = pk /\ sig[3] = data THEN Ok(TRUE) ELSE Err(SigErrorMsg)

\* reading a length-prefixed byte vector off the front of a buffer
ReadVec(buf) ==
    IF /\ Len(buf) >= 1 /\ Len(buf[1]) = 2 /\ buf[1][1] = "len"
       /\ Len(buf) >= 1 + buf[1][2]
    THEN [ok |-> TRUE, v |-> SubSeq(buf, 2, 1 + buf[1][2]),
          rest |-> SubSeq(buf, 2 + buf[1][2], Len(buf))]
    ELSE [ok |-> FALSE, v |-> <<>>, rest |-> buf]

WriteVec(bytes) == <<<<"len", Len(bytes)>>>> \o bytes

\* reading an Option<Vec<u8>>: a presence cell, then the vector when present
ReadOptVec(buf) ==
    IF Len(buf) >= 1 /\ Len(buf[1]) = 2 /\ buf[1][1] = "opt"
    THEN IF buf[1][2] = 0
         THEN [ok |-> TRUE, v |-> None, rest |-> Tail(buf)]
         ELSE [ok |-> ReadVec(Tail(buf)).ok, v |-> Some(ReadVec(Tail(buf)).v),
               rest |-> ReadVec(Tail(buf)).rest]
    ELSE [ok |-> FALSE, v |-> None, rest |-> buf]

WriteOptVec(o) == IF o.some THEN <<<<"opt", 1>>>> \o WriteVec(o.v) ELSE <<<<"opt", 0>>>>

\* proto::Tx: the outer envelope container {code, data}
Tx_new(code, data) == [code |-> code, data |-> data]

\* Tx::to_bytes
Tx_to_bytes(tx) == WriteVec(tx.code) \o WriteOptVec(tx.data)

\* Tx::try_from(&[u8]): the whole buffer must be one Tx
Tx_try_from(bytes) ==
    LET c == ReadVec(bytes)
        d == ReadOptVec(c.rest)
    IN  IF c.ok /\ d.ok /\ d.rest = <<>>
        THEN Ok(Tx_new(c.v, d.v))
        ELSE Err("TxDeserializingError")

\* SignedTxData {data, sig}, borsh
SignedTxData(data, sig) == [data |-> data, sig |-> sig]
SignedTxData_to_vec(s) == WriteOptVec(s.data) \o <<s.sig>>

\* SignedTxData::try_from_slice: the whole slice must be consumed
SignedTxData_try_from_slice(bytes) ==
    LET d == ReadOptVec(bytes)
    IN  IF d.ok /\ Len(d.rest) = 1 /\ IsSig(d.rest[1])
        THEN Ok(SignedTxData(d.v, d.rest[1]))
        ELSE Err("InvalidData")

\* Tx::sign: the signature covers the bytes of the unsigned envelope; the
\* data is replaced by the signed-data wrapper around it
Tx_sign(tx, keypair) ==
    Tx_new(tx.code,
           Some(SignedTxData_to_vec(
               SignedTxData(tx.data, Keypair_sign(keypair, Tx_to_bytes(tx))))))

-----------------------------------------------------------------------------
(* Collaborator: the threshold encryption primitive (tpke) *)

\* the fixed encryption key (the G1 generator) and its private key (the G2
\* generator); OtherPriv is any private key that does not match
G1Generator == "G1"
G2Generator == "G2"
OtherPriv == "G2x"
PrivKeys == {G2Generator, OtherPriv}
PubOf(privkey) == IF privkey = G2Generator THEN G1Generator ELSE "G1x"

\* tpke::encrypt(msg, pubkey, rng): the nonce commits to the randomness, byte
\* i is masked by position i of the key stream of (pubkey, randomness), and
\* the tag binds nonce and ciphertext
tpke_encrypt(msg, pubkey, rng) ==
    LET ct == [i \in 1..Len(msg) |-> <<"xor", <<pubkey, rng, i>>, msg[i]>>]
    IN  [nonce |-> <<"g1", rng>>, ciphertext |-> ct, auth_tag |-> <<"g2", rng, ct>>]

\* tpke::decrypt(ct, privkey): unmasks with the key stream the private key
\* derives from the nonce; a wrong key leaves masked bytes
tpke_decrypt(c, privkey) ==
    [i \in 1..Len(c.ciphertext) |->
        IF Len(c.ciphertext[i]) = 3 /\ c.ciphertext[i][1] = "xor"
           /\ c.ciphertext[i][2] = <<PubOf(privkey), c.nonce[2], i>>
        THEN c.ciphertext[i][3]
        ELSE <<"xor", <<PubOf(privkey), c.nonce[2], i>>, c.ciphertext[i]>>]

\* Ciphertext::check: the pairing equation between nonce, ciphertext and tag
tpke_check(c) == c.auth_tag = <<"g2", c.nonce[2], c.ciphertext>>

-----------------------------------------------------------------------------
(* EncryptedTx *)

\* EncryptedTx::encrypt
EncryptedTx_encrypt(msg, pubkey, rng) == tpke_encrypt(msg, pubkey, rng)

\* EncryptedTx::decrypt
EncryptedTx_decrypt(self, privkey) == tpke_decrypt(self, privkey)

\* impl BorshSerialize for EncryptedTx: (nonce bytes, ciphertext, tag bytes)
EncryptedTx_serialize(self) ==
    WriteVec(<<self.nonce>>) \o WriteVec(self.ciphertext) \o WriteVec(<<self.auth_tag>>)

\* a curve point is read off the front of its byte vector
IsPoint(v, tag, n) == Len(v) >= 1 /\ Len(v[1]) = n /\ v[1][1] = tag

\* impl BorshDeserialize for EncryptedTx
EncryptedTx_deserialize(buf) ==
    LET n == ReadVec(buf)
        c == ReadVec(n.rest)
        t == ReadVec(c.rest)
    IN  IF n.ok /\ c.ok /\ t.ok /\ IsPoint(n.v, "g1", 2) /\ IsPoint(t.v, "g2", 3)
        THEN [ok |-> TRUE,
              v |-> [nonce |-> n.v[1], ciphertext |-> c.v, auth_tag |-> t.v[1]],
              rest |-> t.rest]
        ELSE [ok |-> FALSE,
              v |-> [nonce |-> <<"g1", 0>>, ciphertext |-> <<>>,
                     auth_tag |-> <<"g2", 0, <<>>>>],
              rest |-> buf]

-----------------------------------------------------------------------------
(* WrapperTx *)

Fee(amount, token) == [amount |-> amount, token |-> token]

WrapperTx(fee, pk, epoch, gas_limit, inner_tx, tx_hash) ==
    [fee |-> fee, pk |-> pk, epoch |-> epoch, gas_limit |-> gas_limit,
     inner_tx |-> inner_tx, tx_hash |-> tx_hash]

\* WrapperTx::new committing to the ciphertext bytes instead of the plaintext
WrapperTx_new_commit_ciphertext(fee, keypair, epoch, gas_limit, tx, rng) ==
    WrapperTx(fee, public(keypair), epoch, gas_limit,
              EncryptedTx_encrypt(Tx_to_bytes(tx), G1Generator, rng),
              Sha256_digest(
                  EncryptedTx_encrypt(Tx_to_bytes(tx), G1Generator, rng).ciphertext))

\* WrapperTx::new; rng is the randomness the encryption draws
WrapperTx_new(fee, keypair, epoch, gas_limit, tx, rng) ==
    WrapperTx(fee, public(keypair), epoch, gas_limit,
              EncryptedTx_encrypt(Tx_to_bytes(tx), G1Generator, rng),
              Sha256_digest(Tx_to_bytes(tx)))

\* WrapperTx::validate_ciphertext
validate_ciphertext(self) == tpke_check(self.inner_tx)

\* WrapperTx::decrypt without the comparison against the commitment
decrypt_unchecked(self, privkey) ==
    LET decrypted == EncryptedTx_decrypt(self.inner_tx, privkey)
    IN  IF Tx_try_from(decrypted).tag = "Ok"
        THEN Tx_try_from(decrypted)
        ELSE Err("InvalidTx")

\* WrapperTx::decrypt parsing the decrypted bytes before comparing digests
decrypt_parse_first(self, privkey) ==
    LET decrypted == EncryptedTx_decrypt(self.inner_tx, privkey)
    IN  IF Tx_try_from(decrypted).tag # "Ok"
        THEN Err("InvalidTx")
        ELSE IF Sha256_digest(decrypted) # self.tx_hash
             THEN Err("DecryptedHash")
             ELSE Tx_try_from(decrypted)

\* WrapperTx::decrypt
decrypt(self, privkey) ==
    LET decrypted == EncryptedTx_decrypt(self.inner_tx, privkey)
    IN  IF Sha256_digest(decrypted) # self.tx_hash
        THEN Err("DecryptedHash")
        ELSE IF Tx_try_from(decrypted).tag = "Ok"
             THEN Tx_try_from(decrypted)
             ELSE Err("InvalidTx")

\* #[derive(BorshSerialize)] for WrapperTx: the fields in declaration order;
\* the gas limit goes through GasLimit's own serializer, which may panic
WrapperTx_try_to_vec(self) ==
    LET gas == GasLimit_serialize(self.gas_limit)
    IN  [ok |-> gas.ok,
         v |-> IF gas.ok
               THEN <<<<"amount", self.fee.amount>>, <<"addr", self.fee.token>>,
                      self.pk, <<"epoch", self.epoch>>>>
                    \o gas.v \o EncryptedTx_serialize(self.inner_tx)
                    \o <<self.tx_hash>>
               ELSE <<>>]

IsCell(buf, i, tag) == Len(buf) >= i /\ Len(buf[i]) = 2 /\ buf[i][1] = tag

\* #[derive(BorshDeserialize)] for WrapperTx: reads the fields off the front
\* of the buffer and leaves the rest
WrapperTx_deserialize(buf) ==
    LET head == /\ IsCell(buf, 1, "amount") /\ IsCell(buf, 2, "addr")
                /\ IsCell(buf, 3, "pk") /\ IsCell(buf, 4, "epoch")
        gas == GasLimit_deserialize(SubSeq(buf, 5, Len(buf)))
        enc == EncryptedTx_deserialize(gas.rest)
        hash == Len(enc.rest) >= 1 /\ IsHash(enc.rest[1])
    IN  IF head /\ gas.ok /\ enc.ok /\ hash
        THEN [ok |-> TRUE,
              v |-> WrapperTx(Fee(buf[1][2], buf[2][2]), buf[3], buf[4][2],
                              gas.v, enc.v, enc.rest[1]),
              rest |-> Tail(enc.rest)]
        ELSE [ok |-> FALSE, v |-> <<>>, rest |-> buf]

\* WrapperTx::sign
sign(self, keypair) ==
    LET bytes == WrapperTx_try_to_vec(self)
    IN  [ok |-> bytes.ok,
         v |-> Tx_sign(Tx_new(<<>>, Some(bytes.v)), keypair)]

\* TryFrom<Tx> without the signature verification
try_from_unverified(tx) ==
    LET signed == SignedTxData_try_from_slice(tx.data.v)
    IN  IF tx.data.some /\ signed.tag = "Ok" /\ signed.v.data.some
        THEN LET wrapper_tx == WrapperTx_deserialize(signed.v.data.v)
             IN  IF ~wrapper_tx.ok THEN Err("InvalidWrapperTx")
                 ELSE Ok(wrapper_tx.v)
        ELSE Err("Unsigned")

\* TryFrom<Tx> verifying the signature before it looks at the inner data,
\* under the key of the signature's maker
try_from_signature_first(tx) ==
    LET signed == SignedTxData_try_from_slice(tx.data.v)
    IN  IF tx.data.some /\ signed.tag = "Ok" /\ signed.v.data.some
        THEN LET data == signed.v.data.v
                 wrapper_tx == WrapperTx_deserialize(data)
                 verified ==
                     verify_signature_raw(
                         IF wrapper_tx.ok THEN wrapper_tx.v.pk ELSE public("alice"),
                         Tx_to_bytes([tx EXCEPT !.data = Some(data)]),
                         signed.v.sig)
             IN  IF verified.tag = "Err"
                 THEN [tag |-> "Err", err |-> "SigError", msg |-> verified.err]
                 ELSE IF ~wrapper_tx.ok THEN Err("InvalidWrapperTx")
                      ELSE Ok(wrapper_tx.v)
        ELSE Err("Unsigned")

\* TryFrom<Tx> asking for non-empty inner data
try_from_nonempty(tx) ==
    LET signed == SignedTxData_try_from_slice(tx.data.v)
    IN  IF /\ tx.data.some /\ signed.tag = "Ok" /\ signed.v.data.some
           /\ signed.v.data.v # <<>>
        THEN LET data == signed.v.data.v
                 wrapper_tx == WrapperTx_deserialize(data)
                 verified ==
                     verify_signature_raw(
                         wrapper_tx.v.pk,
                         Tx_to_bytes([tx EXCEPT !.data = Some(data)]),
                         signed.v.sig)
             IN  IF ~wrapper_tx.ok THEN Err("InvalidWrapperTx")
                 ELSE IF verified.tag = "Err"
                      THEN [tag |-> "Err", err |-> "SigError", msg |-> verified.err]
                      ELSE Ok(wrapper_tx.v)
        ELSE Err("Unsigned")

\* impl TryFrom<Tx> for WrapperTx
try_from(tx) ==
    LET signed == SignedTxData_try_from_slice(tx.data.v)
    IN  IF tx.data.some /\ signed.tag = "Ok" /\ signed.v.data.some
        THEN LET data == signed.v.data.v
                 wrapper_tx == WrapperTx_deserialize(data)
                 verified ==
                     verify_signature_raw(
                         wrapper_tx.v.pk,
                         Tx_to_bytes([tx EXCEPT !.data = Some(data)]),
                         signed.v.sig)
             IN  IF ~wrapper_tx.ok THEN Err("InvalidWrapperTx")
                 ELSE IF verified.tag = "Err"
                      THEN [tag |-> "Err", err |-> "SigError", msg |-> verified.err]
                      ELSE Ok(wrapper_tx.v)
        ELSE Err("Unsigned")

-----------------------------------------------------------------------------
(* Inputs of the wrapper operations *)

\* encryption randomness is drawn from 1 .. MaxRng
MaxRng == 2
Rngs == 1..MaxRng

B(b) == <<"u8", b>>
Junk == <<<<"junk", 0>>>>

\* inner transactions: code with data, code without data
TxSamples == {Tx_new(<<B(1)>>, Some(<<B(2)>>)), Tx_new(<<B(3), B(4)>>, None)}

\* what an attacker may encrypt: the bytes of a transaction, or bytes that
\* are no transaction; each sample says what it is
PlainOf(tx) == [bytes |-> Tx_to_bytes(tx), parses |-> TRUE, tx |-> tx]
PlainJunk == [bytes |-> Junk, parses |-> FALSE, tx |-> Tx_new(<<>>, None)]
PlainSamples == {PlainOf(t) : t \in TxSamples} \cup {PlainJunk}

\* gas budgets a client declares: 0 (as the tests do) and the largest u64
GasInputs == {Zero, U64_MAX}

TheFee == Fee(10, "xan")
TheEpoch == 0

NoWrapper == [some |-> FALSE, v |-> <<>>]
NoEnvelope == [some |-> FALSE, v |-> Tx_new(<<>>, None)]
NoPlain ==
    [bytes |-> <<>>, parses |-> FALSE, tx |-> Tx_new(<<>>, None),
     committed |-> FALSE, wellformed |-> FALSE, origin |-> "none"]
NoMeta ==
    [by |-> "none", outer |-> "none", inner |-> "none", sig_ok |-> FALSE,
     signer |-> "none", w |-> <<>>, plain |-> NoPlain, signed_plain |-> NoPlain]

-----------------------------------------------------------------------------
(* State machine *)

Init ==
    /\ overflow_checks \in BOOLEAN
    /\ gas_raw = Zero
    /\ limit = GasLimit_from(Zero)
    /\ wrapper = NoWrapper
    /\ plain = NoPlain
    /\ envelope = NoEnvelope
    /\ meta = NoMeta
    /\ op = [name |-> "init"]

GasVars == <<gas_raw, limit>>
TxVars == <<wrapper, plain, envelope, meta>>

(* gas-limit operations *)

\* GasLimit::from(n)
GasFrom(n) ==
    /\ gas_raw' = n
    /\ limit' = GasLimit_from(n)
    /\ op' = [name |-> "GasLimit::from", amount |-> n, out |-> limit']
    /\ UNCHANGED <<overflow_checks, TxVars>>

\* u64::from(&limit)
GasToU64 ==
    /\ op' = [name |-> "u64::from", self |-> limit, out |-> u64_from(limit)]
    /\ UNCHANGED <<overflow_checks, GasVars, TxVars>>

\* GasLimit::from(u64::from(&limit)): quantizing the quantized value again
GasRequantize ==
    /\ u64_from(limit).ok
    /\ gas_raw' = u64_from(limit).v
    /\ limit' = GasLimit_from(u64_from(limit).v)
    /\ op' = [name |-> "requantize", self |-> limit, out |-> limit']
    /\ UNCHANGED <<overflow_checks, TxVars>>

\* limit.refund_amount(used_gas)
GasRefund(used_gas) ==
    /\ op' = [name |-> "refund_amount", self |-> limit, used_gas |-> used_gas,
              out |-> refund_amount(limit, used_gas)]
    /\ UNCHANGED <<overflow_checks, GasVars, TxVars>>

\* limit.try_to_vec()
GasSerialize ==
    /\ op' = [name |-> "serialize", self |-> limit, out |-> GasLimit_serialize(limit)]
    /\ UNCHANGED <<overflow_checks, GasVars, TxVars>>

\* BorshDeserialize::deserialize on the bytes just written (a round trip)
GasDeserializeBack ==
    /\ op.name = "serialize" /\ op.out.ok
    /\ gas_raw' = u64_from(limit).v
    /\ LET out == GasLimit_deserialize(op.out.v)
       IN  /\ limit' = out.v
           /\ op' = [name |-> "deserialize", buf |-> op.out.v, back |-> TRUE,
                     self |-> limit, out |-> out]
    /\ UNCHANGED <<overflow_checks, TxVars>>

\* BorshDeserialize::deserialize on the 8 bytes of x followed by `more`
GasDeserialize(x, more) ==
    LET buf == borsh_serialize_u64(x) \o more
        out == GasLimit_deserialize(buf)
    IN  /\ gas_raw' = x
        /\ limit' = out.v
        /\ op' = [name |-> "deserialize", buf |-> buf, back |-> FALSE,
                  self |-> limit, out |-> out]
        /\ UNCHANGED <<overflow_checks, TxVars>>

\* BorshDeserialize::deserialize on a buffer shorter than 8 bytes
GasDeserializeShort ==
    /\ op' = [name |-> "deserialize", buf |-> <<B(1), B(2)>>, back |-> FALSE,
              self |-> limit, out |-> GasLimit_deserialize(<<B(1), B(2)>>)]
    /\ UNCHANGED <<overflow_checks, GasVars, TxVars>>

\* serde_json::to_string(&limit)
GasToJson ==
    /\ op' = [name |-> "to_json", self |-> limit, out |-> GasLimit_to_json(limit)]
    /\ UNCHANGED <<overflow_checks, GasVars, TxVars>>

\* serde_json::from_str on the text just written (a round trip)
GasFromJsonBack ==
    /\ op.name = "to_json" /\ op.out.ok
    /\ gas_raw' = u64_from(limit).v
    /\ LET out == GasLimit_from_json(op.out.v)
       IN  /\ limit' = out.v
           /\ op' = [name |-> "from_json", text |-> op.out.v, back |-> TRUE,
                     self |-> limit, out |-> out]
    /\ UNCHANGED <<overflow_checks, TxVars>>

\* serde_json::from_str on the decimal text of x
GasFromJson(x) ==
    /\ gas_raw' = x
    /\ LET text == json_to_string_u64(x)
           out == GasLimit_from_json(text)
       IN  /\ limit' = out.v
           /\ op' = [name |-> "from_json", text |-> text, back |-> FALSE,
                     self |-> limit, out |-> out]
    /\ UNCHANGED <<overflow_checks, TxVars>>

\* serde_json::from_str on a text that is no u64
GasFromBadJson(text) ==
    /\ op' = [name |-> "from_json", text |-> text, back |-> FALSE,
              self |-> limit, out |-> GasLimit_from_json(text)]
    /\ UNCHANGED <<overflow_checks, GasVars, TxVars>>

NextGas ==
    \/ \E n \in RawSamples : GasFrom(n)
    \/ GasToU64
    \/ GasRequantize
    \/ \E used_gas \in RawSamples : GasRefund(used_gas)
    \/ GasSerialize
    \/ GasDeserializeBack
    \/ \E x \in RawSamples : GasDeserialize(x, <<>>)
    \/ GasDeserialize(Add(Resolution, Small(1)), <<B(7)>>)
    \/ GasDeserializeShort
    \/ GasToJson
    \/ GasFromJsonBack
    \/ \E x \in RawSamples : GasFromJson(x)
    \/ \E text \in BadTexts : GasFromBadJson(text)

SpecGas == Init /\ [][NextGas]_vars

-----------------------------------------------------------------------------
(* wrapper-transaction operations *)

\* WrapperTx::new(fee, &keypair, epoch, gas.into(), tx)
New(keypair, gas, tx, rng) ==
    /\ ~wrapper.some
    /\ wrapper' = Some(WrapperTx_new(TheFee, keypair, TheEpoch, GasLimit_from(gas), tx, rng))
    /\ plain' = [bytes |-> Tx_to_bytes(tx), parses |-> TRUE, tx |-> tx,
                 committed |-> TRUE, wellformed |-> TRUE, origin |-> "new"]
    /\ op' = [name |-> "new", keypair |-> keypair, gas |-> gas, tx |-> tx,
              out |-> wrapper'.v]
    /\ UNCHANGED <<overflow_checks, GasVars, envelope, meta>>

\* wrapper.tx_hash = h, for an h that is not the digest of the plaintext
CorruptHash(h) ==
    /\ wrapper.some
    /\ ~envelope.some
    /\ h # Sha256_digest(plain.bytes)
    /\ wrapper' = Some([wrapper.v EXCEPT !.tx_hash = h])
    /\ plain' = [plain EXCEPT !.committed = FALSE]
    /\ op' = [name |-> "corrupt_hash"]
    /\ UNCHANGED <<overflow_checks, GasVars, envelope, meta>>

\* wrapper.inner_tx = EncryptedTx::encrypt(p, pubkey); wrapper.tx_hash = the
\* digest of p
ReplacePayload(p, rng) ==
    /\ wrapper.some
    /\ envelope.some => meta.by = "sign"
    /\ wrapper' = Some([wrapper.v EXCEPT
                          !.inner_tx = EncryptedTx_encrypt(p.bytes, G1Generator, rng),
                          !.tx_hash = Sha256_digest(p.bytes)])
    /\ plain' = [bytes |-> p.bytes, parses |-> p.parses, tx |-> p.tx,
                 committed |-> TRUE, wellformed |-> TRUE, origin |-> "replaced"]
    /\ op' = [name |-> "replace_payload"]
    /\ UNCHANGED <<overflow_checks, GasVars, envelope, meta>>

\* the last ciphertext byte is cut off without redoing the authentication tag
TruncateCiphertext ==
    /\ wrapper.some
    /\ ~envelope.some
    /\ plain.wellformed
    /\ wrapper' = Some([wrapper.v EXCEPT !.inner_tx.ciphertext =
                          SubSeq(@, 1, Len(@) - 1)])
    /\ plain' = [bytes |-> SubSeq(plain.bytes, 1, Len(plain.bytes) - 1),
                 parses |-> FALSE,
                 tx |-> Tx_new(<<>>, None), committed |-> FALSE,
                 wellformed |-> FALSE, origin |-> "truncated"]
    /\ op' = [name |-> "truncate_ciphertext"]
    /\ UNCHANGED <<overflow_checks, GasVars, envelope, meta>>

\* wrapper.validate_ciphertext()
ValidateCiphertext ==
    /\ wrapper.some
    /\ op' = [name |-> "validate_ciphertext", out |-> validate_ciphertext(wrapper.v)]
    /\ UNCHANGED <<overflow_checks, GasVars, TxVars>>

\* wrapper.decrypt(privkey)
Decrypt(privkey) ==
    /\ wrapper.some
    /\ op' = [name |-> "decrypt", privkey |-> privkey,
              out |-> decrypt(wrapper.v, privkey)]
    /\ UNCHANGED <<overflow_checks, GasVars, TxVars>>

\* wrapper.sign(&keypair); nothing is produced when the serialization panics
Sign(keypair) ==
    /\ wrapper.some
    /\ ~envelope.some
    /\ LET out == sign(wrapper.v, keypair)
       IN  /\ op' = [name |-> "sign", keypair |-> keypair, ok |-> out.ok]
           /\ envelope' = IF out.ok THEN Some(out.v) ELSE envelope
           /\ meta' = IF out.ok
                      THEN [by |-> "sign", outer |-> "signed", inner |-> "wrapper",
                            sig_ok |-> (public(keypair) = wrapper.v.pk),
                            signer |-> keypair, w |-> wrapper.v,
                            plain |-> plain, signed_plain |-> plain]
                      ELSE meta
    /\ UNCHANGED <<overflow_checks, GasVars, wrapper, plain>>

\* the wrapper bytes inside a signed envelope are replaced by the bytes of
\* the wrapper now held; the signature is left as it is
Substitute ==
    /\ wrapper.some
    /\ envelope.some
    /\ meta.by = "sign"
    /\ WrapperTx_try_to_vec(wrapper.v).ok
    /\ LET signed_tx_data == SignedTxData_try_from_slice(envelope.v.data.v).v
           data == Some(WrapperTx_try_to_vec(wrapper.v).v)
       IN  /\ envelope' = Some([envelope.v EXCEPT !.data =
                   Some(SignedTxData_to_vec(SignedTxData(data, signed_tx_data.sig)))])
           /\ meta' = [meta EXCEPT !.by = "substitute", !.w = wrapper.v,
                                   !.plain = plain,
                                   !.sig_ok = @ /\ data = signed_tx_data.data]
    /\ op' = [name |-> "substitute"]
    /\ UNCHANGED <<overflow_checks, GasVars, wrapper, plain>>

\* an envelope without data
ForgeNoData ==
    /\ ~envelope.some
    /\ ~wrapper.some
    /\ envelope' = Some(Tx_new(<<>>, None))
    /\ meta' = [NoMeta EXCEPT !.by = "forge", !.outer = "nodata"]
    /\ op' = [name |-> "forge"]
    /\ UNCHANGED <<overflow_checks, GasVars, wrapper, plain>>

\* a signed-data wrapper put together by hand: its inner data is absent,
\* empty, no WrapperTx, or the bytes of the wrapper held; its signature is
\* made by `signer` over the envelope's bytes (right) or over other bytes
SignedBy(inner_data, signer, right) ==
    SignedTxData(inner_data,
        Keypair_sign(signer,
            Tx_to_bytes(Tx_new(IF right THEN <<>> ELSE <<B(9)>>, inner_data))))

\* an envelope whose data is no signed-data wrapper: empty, other bytes, or
\* a signed-data wrapper followed by one more byte
ForgeJunkData(data) ==
    /\ ~envelope.some
    /\ ~wrapper.some
    /\ envelope' = Some(Tx_new(<<>>, Some(data)))
    /\ meta' = [NoMeta EXCEPT !.by = "forge", !.outer = "junk"]
    /\ op' = [name |-> "forge"]
    /\ UNCHANGED <<overflow_checks, GasVars, wrapper, plain>>

JunkData ==
    {<<>>, Junk,
     Append(SignedTxData_to_vec(SignedBy(Some(Junk), "alice", TRUE)), B(0))}

InnerData(inner) ==
    CASE inner = "absent" -> None
      [] inner = "empty" -> Some(<<>>)
      [] inner = "junk" -> Some(Junk)
      [] inner = "wrapper" -> Some(WrapperTx_try_to_vec(wrapper.v).v)

ForgeSigned(inner, signer, right) ==
    /\ ~envelope.some
    /\ IF inner = "wrapper"
       THEN wrapper.some /\ WrapperTx_try_to_vec(wrapper.v).ok
       ELSE ~wrapper.some
    /\ envelope' = Some(Tx_new(<<>>,
            Some(SignedTxData_to_vec(SignedBy(InnerData(inner), signer, right)))))
    /\ meta' = [by |-> "forge", outer |-> "signed", inner |-> inner,
                sig_ok |-> (inner = "wrapper" /\ right
                              /\ public(signer) = wrapper.v.pk),
                signer |-> signer,
                w |-> IF inner = "wrapper" THEN wrapper.v ELSE <<>>,
                plain |-> plain, signed_plain |-> plain]
    /\ op' = [name |-> "forge"]
    /\ UNCHANGED <<overflow_checks, GasVars, wrapper, plain>>

\* the gas field of a forged wrapper: GAS_LIMIT_RESOLUTION + 1, the value of
\* test_deserialize_not_multipe_of_resolution
UnroundedGas == Add(Resolution, Small(1))

\* inner data that starts with a WrapperTx without being its serialization:
\* the bytes of the wrapper held followed by one more byte, or its fields
\* with a gas field that is no multiple of the resolution
NonCanonicalData(kind) ==
    IF kind = "trailing"
    THEN Append(WrapperTx_try_to_vec(wrapper.v).v, B(0))
    ELSE <<<<"amount", wrapper.v.fee.amount>>, <<"addr", wrapper.v.fee.token>>,
           wrapper.v.pk, <<"epoch", wrapper.v.epoch>>>>
         \o borsh_serialize_u64(UnroundedGas)
         \o EncryptedTx_serialize(wrapper.v.inner_tx)
         \o <<wrapper.v.tx_hash>>

\* an envelope put together and signed by `signer` over such inner data
ForgeNonCanonical(kind, signer) ==
    /\ ~envelope.some
    /\ wrapper.some
    /\ kind = "trailing" => WrapperTx_try_to_vec(wrapper.v).ok
    /\ envelope' = Some(Tx_new(<<>>,
            Some(SignedTxData_to_vec(
                    SignedBy(Some(NonCanonicalData(kind)), signer, TRUE)))))
    /\ meta' = [by |-> "forge", outer |-> "signed", inner |-> kind,
                sig_ok |-> (public(signer) = wrapper.v.pk),
                signer |-> signer,
                w |-> IF kind = "trailing" THEN wrapper.v
                      ELSE [wrapper.v EXCEPT
                               !.gas_limit = GasLimit_from(UnroundedGas)],
                plain |-> plain, signed_plain |-> plain]
    /\ op' = [name |-> "forge"]
    /\ UNCHANGED <<overflow_checks, GasVars, wrapper, plain>>

\* WrapperTx::try_from(envelope); the wrapper it returns is the one held next
TryFrom ==
    /\ envelope.some
    /\ LET out == try_from(envelope.v)
       IN  /\ op' = [name |-> "try_from", out |-> out]
           /\ wrapper' = IF out.tag = "Ok" THEN Some(out.v) ELSE wrapper
           /\ plain' = IF out.tag = "Ok" THEN meta.plain ELSE plain
    /\ UNCHANGED <<overflow_checks, GasVars, envelope, meta>>

\* commitments that can be written over tx_hash: [0u8; 32] and the digest of
\* other bytes
HashSamples == {ZeroHash, Sha256_digest(Junk)}

Next ==
    \/ \E keypair \in Keypairs, gas \in GasInputs, tx \in TxSamples, rng \in Rngs :
          New(keypair, gas, tx, rng)
    \/ \E h \in HashSamples : CorruptHash(h)
    \/ \E p \in PlainSamples, rng \in Rngs : ReplacePayload(p, rng)
    \/ TruncateCiphertext
    \/ ValidateCiphertext
    \/ \E privkey \in PrivKeys : Decrypt(privkey)
    \/ \E keypair \in Keypairs : Sign(keypair)
    \/ Substitute
    \/ ForgeNoData
    \/ \E data \in JunkData : ForgeJunkData(data)
    \/ \E inner \in {"absent", "empty", "junk", "wrapper"},
          signer \in Keypairs, right \in BOOLEAN :
          ForgeSigned(inner, signer, right)
    \/ \E kind \in {"trailing", "unrounded"}, signer \in Keypairs :
          ForgeNonCanonical(kind, signer)
    \/ TryFrom

Spec == Init /\ [][Next]_vars

-----------------------------------------------------------------------------
(* Claims about GasLimit, checked under SpecGas *)

\* the least multiple of the resolution that is >= n, as an exact integer
CeilToRes(n) == IF n[3] = 0 THEN n ELSE Norm(<<n[1], n[2] + 1, 0>>)

\* the limit a GasLimit stands for, as an exact integer
ExactLimit(self) == MulRes(self.multiplier)

\* C7: for every raw u64 n, u64::from(GasLimit::from(n)) is
\* RESOLUTION * ceil(n / RESOLUTION), hence a multiple of RESOLUTION that is
\* not below n; and GasLimit::from of an already quantized value gives the
\* same GasLimit back.
C7_GasQuantization ==
    /\ op.name = "u64::from" =>
          /\ op.out.ok
          /\ op.out.v = CeilToRes(gas_raw)
          /\ op.out.v[3] = 0
          /\ Le(gas_raw, op.out.v)
    /\ op.name = "requantize" => op.out = op.self

\* the refund the policy prescribes for limit L and used_gas, exactly
PolicyRefund(L, used_gas) ==
    IF Lt(used_gas, Sub(L, Resolution)) THEN Resolution
    ELSE IF Le(L, used_gas) THEN Zero
    ELSE Sub(L, used_gas)

\* C8: for every GasLimit with multiplier m >= 1 and every used_gas,
\* refund_amount(used_gas) is RESOLUTION when used_gas < L - RESOLUTION, 0
\* when used_gas >= L, and L - used_gas otherwise (L = m * RESOLUTION); so a
\* refund never exceeds RESOLUTION.
C8_RefundPolicy ==
    (op.name = "refund_amount" /\ Le(Small(1), op.self.multiplier)) =>
        /\ op.out.ok
        /\ op.out.v = Amount_from(PolicyRefund(ExactLimit(op.self), op.used_gas))
        /\ Le(op.out.v.micro, Resolution)

\* C9: both wire forms of a GasLimit carry m * RESOLUTION; decoding what was
\* encoded gives an equal GasLimit, however often it is repeated; decoding a
\* value that is no multiple of RESOLUTION rounds it up; GasLimit{1} is the
\* text 1000000 and the text 1000001 is GasLimit{2}.
C9_GasSerialization ==
    /\ op.name = "serialize" =>
          /\ op.out.ok
          /\ Len(op.out.v) = 8
          /\ FromLeBytes(op.out.v) = ExactLimit(op.self)
    /\ op.name = "to_json" =>
          /\ op.out.ok
          /\ ParseDigits(op.out.v, Zero) = ExactLimit(op.self)
          /\ op.self = GasLimit(Small(1)) => op.out.v = <<1, 0, 0, 0, 0, 0, 0>>
    /\ (op.name \in {"deserialize", "from_json"} /\ op.back) =>
          /\ op.out.ok
          /\ op.out.v = op.self
    /\ (op.name \in {"deserialize", "from_json"} /\ ~op.back /\ op.out.ok) =>
          ExactLimit(op.out.v) = CeilToRes(gas_raw)
    /\ (op.name = "from_json" /\ op.text = <<1, 0, 0, 0, 0, 0, 1>>) =>
          op.out = [ok |-> TRUE, v |-> GasLimit(Small(2))]

\* the gas of limit L that used_gas leaves unused: max(0, L - used_gas)
UnusedGas(L, used_gas) == IF Lt(used_gas, L) THEN Sub(L, used_gas) ELSE Zero

\* C11: for every GasLimit that GasLimit::from returns, multiplier 0
\* included, and every used_gas, refund_amount(used_gas) computes without
\* leaving the range of u64 and returns at most max(0, L - used_gas) with
\* L = multiplier * RESOLUTION; a GasLimit of 0 always refunds 0.
C11_RefundWithinUnused ==
    op.name = "refund_amount" =>
        /\ op.out.ok
        /\ InU64(ExactLimit(op.self))
        /\ InU64(Sub(ExactLimit(op.self), Resolution))
        /\ Le(op.out.v.micro, UnusedGas(ExactLimit(op.self), op.used_gas))
        /\ op.self = GasLimit(Zero) => op.out.v = Amount_from(Zero)

-----------------------------------------------------------------------------
(* Claims about WrapperTx, checked under Spec *)

SigError == [tag |-> "Err", err |-> "SigError", msg |-> SigErrorMsg]

\* the wrapper held is the signed wrapper of a validly signed envelope with
\* inner_tx replaced by an encryption of a different plaintext and tx_hash by
\* that plaintext's digest
TamperedWrapper ==
    /\ wrapper.some /\ envelope.some
    /\ meta.by \in {"sign", "substitute"}
    /\ public(meta.signer) = wrapper.v.pk
    /\ plain.origin = "replaced" /\ plain.committed
    /\ plain.bytes # meta.signed_plain.bytes

\* the envelope carries such a tampered wrapper under the original signature
TamperedEnvelope ==
    /\ envelope.some
    /\ meta.by = "substitute"
    /\ public(meta.signer) = meta.w.pk
    /\ meta.plain.origin = "replaced" /\ meta.plain.committed
    /\ meta.plain.bytes # meta.signed_plain.bytes

\* C1: when the inner_tx of a validly signed envelope's wrapper is replaced
\* by a fresh encryption of a different transaction and tx_hash by its
\* digest, validate_ciphertext() is true on the tampered wrapper and
\* decrypt() returns the attacker's transaction, but try_from on the envelope
\* that carries the tampered bytes under the original signature fails with
\* SigError.
C1_AntiMalleability ==
    /\ (op.name = "validate_ciphertext" /\ TamperedWrapper) => op.out = TRUE
    /\ (op.name = "decrypt" /\ op.privkey = G2Generator /\ TamperedWrapper
          /\ plain.parses) => op.out = Ok(plain.tx)
    /\ (op.name = "try_from" /\ TamperedEnvelope) => op.out = SigError

C1_Witness ==
    /\ op.name = "try_from"
    /\ TamperedEnvelope
    /\ meta.plain.parses
    /\ validate_ciphertext(meta.w)

\* what the envelope is, by construction
HasSignedData == meta.outer = "signed" /\ meta.inner # "absent"
HasWrapper == meta.inner \in {"wrapper", "trailing", "unrounded"}

\* C2: try_from checks in this order and stops at the first failure: the
\* envelope data is a signed-data wrapper with inner data (else Unsigned),
\* the inner data is a WrapperTx (else InvalidWrapperTx), the signature
\* verifies under the wrapper's pk (else SigError); Ok only when all pass.
C2_TryFromOrder ==
    op.name = "try_from" =>
        /\ ~HasSignedData => op.out = Err("Unsigned")
        /\ (HasSignedData /\ ~HasWrapper) => op.out = Err("InvalidWrapperTx")
        /\ (HasSignedData /\ HasWrapper /\ ~meta.sig_ok) => op.out = SigError
        /\ (HasSignedData /\ HasWrapper /\ meta.sig_ok) => op.out.tag = "Ok"
        /\ op.out.tag = "Ok" => HasSignedData /\ HasWrapper /\ meta.sig_ok

\* an envelope that fails both the WrapperTx check and the signature check
C2_Witness ==
    /\ op.name = "try_from"
    /\ meta.outer = "signed" /\ meta.inner = "junk" /\ ~meta.sig_ok
    /\ op.out = Err("InvalidWrapperTx")

\* C3 as stated: try_from fails with Unsigned for every envelope without the
\* signed-data wrapper and for every envelope whose wrapper has empty inner
\* data, absent or of zero length.
C3_UnsignedAsStated ==
    (op.name = "try_from"
       /\ (meta.outer \in {"nodata", "junk"}
             \/ (meta.outer = "signed" /\ meta.inner \in {"absent", "empty"})))
    => op.out = Err("Unsigned")

\* C3 amended: Unsigned for every envelope without the signed-data wrapper
\* and for every one whose inner data is absent; inner data present with
\* zero length fails with InvalidWrapperTx.
C3_Unsigned ==
    op.name = "try_from" =>
        /\ (meta.outer \in {"nodata", "junk"}
              \/ (meta.outer = "signed" /\ meta.inner = "absent"))
           => op.out = Err("Unsigned")
        /\ (meta.outer = "signed" /\ meta.inner = "empty")
           => op.out = Err("InvalidWrapperTx")

C3_Witness ==
    op.name = "try_from" /\ meta.outer = "signed" /\ meta.inner = "empty"

\* C4: try_from(w.sign(k)) is Ok of a wrapper with w's fee, pk, epoch,
\* gas_limit, inner_tx and tx_hash when k's public key is w.pk, and fails
\* with SigError otherwise.
C4_SignRoundTrip ==
    /\ op.name = "sign" => op.ok
    /\ (op.name = "try_from" /\ meta.by = "sign") =>
          IF public(meta.signer) = meta.w.pk
          THEN /\ op.out.tag = "Ok"
               /\ op.out.v.fee = meta.w.fee
               /\ op.out.v.pk = meta.w.pk
               /\ op.out.v.epoch = meta.w.epoch
               /\ op.out.v.gas_limit = meta.w.gas_limit
               /\ op.out.v.inner_tx = meta.w.inner_tx
               /\ op.out.v.tx_hash = meta.w.tx_hash
          ELSE op.out = SigError

\* C5: the wrapper WrapperTx::new returns commits to the digest of tx's
\* bytes, passes validate_ciphertext(), and decrypts under the matching
\* private key to Ok(tx).
C5_NewRoundTrip ==
    /\ op.name = "new" =>
          /\ op.out.tx_hash = Sha256_digest(Tx_to_bytes(op.tx))
          /\ wrapper.v = op.out
    /\ (op.name = "validate_ciphertext" /\ plain.origin = "new"
          /\ plain.committed) => op.out = TRUE
    /\ (op.name = "decrypt" /\ op.privkey = G2Generator /\ plain.origin = "new"
          /\ plain.committed) => op.out = Ok(plain.tx)

C5_Witness ==
    /\ op.name = "decrypt" /\ op.privkey = G2Generator
    /\ plain.origin = "new" /\ plain.committed
    /\ ~envelope.some

\* C6: when only tx_hash of a wrapper built by WrapperTx::new is changed to
\* something else than the plaintext digest, validate_ciphertext() stays
\* true and decrypt() under the matching private key fails with
\* DecryptedHash.
C6_CommitmentIntegrity ==
    /\ (op.name = "validate_ciphertext" /\ plain.origin = "new"
          /\ ~plain.committed) => op.out = TRUE
    /\ (op.name = "decrypt" /\ op.privkey = G2Generator /\ plain.origin = "new"
          /\ ~plain.committed) => op.out = Err("DecryptedHash")

C6_Witness ==
    /\ op.name = "decrypt" /\ op.privkey = G2Generator
    /\ plain.origin = "new" /\ ~plain.committed
    /\ validate_ciphertext(wrapper.v)

\* the digest of what decrypt(privkey) recovers is the commitment
DigestMatches == op.privkey = G2Generator /\ plain.committed

\* C10: decrypt compares digests before it parses: DecryptedHash exactly
\* when the digest of the decrypted bytes differs from tx_hash, whether the
\* bytes parse or not; InvalidTx exactly when the digest matches and the
\* bytes do not parse; Ok(inner transaction) only when both hold.
C10_DecryptOrder ==
    op.name = "decrypt" =>
        /\ op.out = Err("DecryptedHash") <=> ~DigestMatches
        /\ op.out = Err("InvalidTx") <=> (DigestMatches /\ ~plain.parses)
        /\ op.out.tag = "Ok" => (DigestMatches /\ plain.parses)
        /\ (DigestMatches /\ plain.parses) => op.out = Ok(plain.tx)

\* a commitment that does not match, over bytes that do not parse
C10_Witness ==
    /\ op.name = "decrypt" /\ op.privkey = G2Generator
    /\ ~plain.committed /\ ~plain.parses /\ plain.wellformed

\* the inner data bytes of the signed-data wrapper the envelope carries
InnerBytes == SignedTxData_try_from_slice(envelope.v.data.v).v.data.v

\* C12: for every envelope on which try_from returns Ok(w), the inner data
\* bytes of its signed-data wrapper are the binary serialization of w: no
\* bytes after the WrapperTx are accepted, and no gas field that is not a
\* multiple of RESOLUTION is accepted and rounded.
C12_AcceptedCanonical ==
    (op.name = "try_from" /\ op.out.tag = "Ok") =>
        /\ WrapperTx_try_to_vec(op.out.v).ok
        /\ InnerBytes = WrapperTx_try_to_vec(op.out.v).v

=============================================================================
